---- MODULE Spec2Model ----
(***************************************************************************)
(* Model of the reduce_window legalization patterns of                     *)
(* tensorflow/compiler/mlir/lite/stablehlo/transforms/                     *)
(*   legalize_hlo_conversions/reduce_window.cc                             *)
(*                                                                         *)
(* The state is the IR graph (a map from operation ids to operations), the *)
(* id the next created operation gets, and the outcome of the last pattern *)
(* attempt.  Each pattern's matchAndRewrite is one action.                 *)
(*                                                                         *)
(* Dimension indices (layouts, permutations) are 0-based as in the source; *)
(* sequences are 1-based, so element d of an attribute a is a[d + 1].      *)
(***************************************************************************)
EXTENDS Integers, Sequences, FiniteSets, TLC

VARIABLES graph, nextId, last, layoutA, layoutB, permAB, permBA

vars == <<graph, nextId, last, layoutA, layoutB, permAB, permBA>>

(***************************************************************************)
(* Bounds of the model.                                                    *)
(***************************************************************************)
MaxWindow == 3
MaxTransposes == 2
MaxNodes == 24
MaxRank == 4

Strides == {1, 2}
PadAmounts == {0, 1}

(***************************************************************************)
(* Generic helpers.                                                        *)
(***************************************************************************)
RECURSIVE Product(_)
Product(s) == IF s = <<>> THEN 1 ELSE Head(s) * Product(Tail(s))

Iota(lo, hi) == [i \in 1..(hi - lo) |-> lo + i - 1]

SeqToSet(s) == {s[i] : i \in 1..Len(s)}

AllOnes(n) == [i \in 1..n |-> 1]

NoPadding(n) == [i \in 1..n |-> <<0, 0>>]

(***************************************************************************)
(* Operations.  Every operation is a record with the same fields; a field  *)
(* a kind does not have keeps its default.  A value is the id of the       *)
(* operation that produces it (result 0).                                  *)
(***************************************************************************)
Absent == <<"absent">>

BlankOp ==
  [kind |-> "none", operands |-> <<>>, inits |-> <<>>, numResults |-> 1,
   shape |-> <<>>, elem |-> "f32", perm |-> <<>>,
   isConst |-> FALSE, splat |-> FALSE, value |-> 0,
   window_dimensions |-> <<>>, window_strides |-> Absent,
   base_dilations |-> Absent, window_dilations |-> Absent, padding |-> Absent,
   body |-> "none",
   filter_height |-> 0, filter_width |-> 0, stride_h |-> 0, stride_w |-> 0,
   pool_padding |-> "none", fused_activation_function |-> "none"]

ArgOp(shape, elem) ==
  [BlankOp EXCEPT !.kind = "arg", !.shape = shape, !.elem = elem]

ConstOp(shape, elem, splat, value) ==
  [BlankOp EXCEPT !.kind = "constant", !.isConst = TRUE, !.shape = shape,
                  !.elem = elem, !.splat = splat, !.value = value]

IsFloat(elem) == elem \in {"f32", "f16"}

(***************************************************************************)
(* Layout (op_util_common.h): SpecialDim1 is the batch dimension,          *)
(* SpecialDim2 the channel dimension, Spatials the ordered spatial ones.   *)
(***************************************************************************)
Layout(d1, d2, spatials) ==
  [SpecialDim1 |-> d1, SpecialDim2 |-> d2, Spatials |-> spatials]

LayoutRank(l) == Len(l.Spatials) + 2

\* perm[to.SpecialDim1] = SpecialDim1; perm[to.SpecialDim2] = SpecialDim2;
\* perm[to_spatial] = from_spatial for the zipped spatial dimensions
GetPermForReLayout(from, to) ==
  [i \in 1..LayoutRank(to) |->
     LET d == i - 1
         n == IF Len(to.Spatials) < Len(from.Spatials)
                THEN Len(to.Spatials) ELSE Len(from.Spatials)
         hits == {k \in 1..n : to.Spatials[k] = d}
     IN IF hits # {} THEN from.Spatials[CHOOSE k \in hits : \A j \in hits : j <= k]
        ELSE IF d = to.SpecialDim2 THEN from.SpecialDim2
        ELSE IF d = to.SpecialDim1 THEN from.SpecialDim1
        ELSE 0]

\* new_shape[ind] = shape[perm[ind]]
PermuteShape(from, to, shape) ==
  LET perm == GetPermForReLayout(from, to)
  IN [i \in 1..LayoutRank(to) |-> shape[perm[i] + 1]]

(***************************************************************************)
(* ReduceWindowView (reduce_window_util.h): the resolved window attributes *)
(* of a reduce_window; an absent optional attribute resolves to its        *)
(* default (stride 1, dilation 1, padding (0,0)).                          *)
(***************************************************************************)
ReduceWindowView(op) ==
  LET rank == Len(op.window_dimensions)
  IN [Rank |-> rank,
      WindowDims |-> op.window_dimensions,
      WindowStrides |-> IF op.window_strides = Absent
                          THEN AllOnes(rank) ELSE op.window_strides,
      BaseDilations |-> IF op.base_dilations = Absent
                          THEN AllOnes(rank) ELSE op.base_dilations,
      WindowDilations |-> IF op.window_dilations = Absent
                            THEN AllOnes(rank) ELSE op.window_dilations,
      Paddings |-> IF op.padding = Absent THEN NoPadding(rank) ELSE op.padding,
      WindowSize |-> Product(op.window_dimensions)]

Trivial(pad) == pad[1] = 0 /\ pad[2] = 0

NoLayout == [has_value |-> FALSE, layout |-> Layout(0, 0, <<>>)]

\* A dimension is not windowed when its window size and stride are 1.  The
\* layout is channel-last when dimensions 0 and rank-1 are not windowed,
\* else channel-first when dimensions 0 and 1 are not windowed.
GuessLayout(view) ==
  LET simple == [i \in 1..view.Rank |->
                   view.WindowDims[i] = 1 /\ view.WindowStrides[i] = 1]
      count == Cardinality({i \in 1..view.Rank : simple[i]})
  IN IF view.Rank < 2 \/ count < 2 THEN NoLayout
     ELSE IF simple[1] /\ simple[view.Rank]
       THEN [has_value |-> TRUE,
             layout |-> Layout(0, view.Rank - 1, Iota(1, view.Rank - 1))]
     ELSE IF simple[1] /\ simple[2]
       THEN [has_value |-> TRUE,
             layout |-> Layout(0, 1, Iota(2, view.Rank))]
     ELSE NoLayout

\* Same-padding relation on one dimension: the output size is
\* ceil(in / stride) and (lo, hi) are the amounts of the standard formula.
IsSamePaddingOnDim(dim_pad, out_dim, in_dim, dim_stride, window_dim) ==
  LET want_out == (in_dim + dim_stride - 1) \div dim_stride
      needed == (out_dim - 1) * dim_stride + window_dim - in_dim
      total == IF needed > 0 THEN needed ELSE 0
  IN /\ out_dim = want_out
     /\ dim_pad[1] = total \div 2
     /\ dim_pad[2] = total - (total \div 2)

\* MatchBinaryReduceFunction<mhlo::AddOp>: the body adds its two arguments
MatchBinaryReduceFunctionAdd(op) == op.body = "add"

(***************************************************************************)
(* Support filter.                                                         *)
(***************************************************************************)
AreDilationsSupported(view) ==
  /\ \A i \in 1..Len(view.BaseDilations) : view.BaseDilations[i] = 1
  /\ \A i \in 1..Len(view.WindowDilations) : view.WindowDilations[i] = 1

IsRankSupported_AtLeast(view) == view.Rank >= 4

IsRankSupported(view) == view.Rank = 4

NoView(op) ==
  [has_value |-> FALSE, view |-> ReduceWindowView(op),
   layout |-> Layout(0, 0, <<>>)]

GetViewIfAttrsSupported(op) ==
  LET view == ReduceWindowView(op)
  IN IF ~IsRankSupported(view) THEN NoView(op)
     ELSE IF ~AreDilationsSupported(view) THEN NoView(op)
     ELSE LET opt_layout == GuessLayout(view)
          IN IF ~opt_layout.has_value THEN NoView(op)
             ELSE LET layout == opt_layout.layout
                      batch == layout.SpecialDim1
                      chan == layout.SpecialDim2
                  IN IF ~Trivial(view.Paddings[batch + 1]) THEN NoView(op)
                     ELSE IF ~Trivial(view.Paddings[chan + 1]) THEN NoView(op)
                     ELSE [has_value |-> TRUE, view |-> view,
                           layout |-> layout]

TFLNativePoolingLayout_ChannelFirst(rank) == Layout(0, 1, Iota(2, rank))

TFLNativePoolingLayout(rank) == Layout(0, rank - 1, Iota(1, rank - 1))

IsCstFloatZero(g, val) ==
  /\ g[val].isConst
  /\ IsFloat(g[val].elem)
  /\ Product(g[val].shape) = 1
  /\ g[val].value = 0

\* res[i] = data[perm[i]]
Permute(data, perm) == [i \in 1..Len(data) |-> data[perm[i] + 1]]

TransposeOp(g, tensor, perm) ==
  [BlankOp EXCEPT !.kind = "transpose", !.operands = <<tensor>>,
                  !.perm = perm, !.elem = g[tensor].elem,
                  !.shape = Permute(g[tensor].shape, perm)]

GetInputAndInitIfValid(g, op) ==
  IF g[op].numResults # 1 THEN FALSE
  ELSE IF Len(g[op].operands) > 1 THEN FALSE
  ELSE IF Len(g[op].inits) > 1 THEN FALSE
  ELSE IF Product(g[g[op].inits[1]].shape) # 1 THEN FALSE
  ELSE TRUE

(***************************************************************************)
(* Rewriter primitives: the outcome of one pattern attempt is the result   *)
(* it returns together with the graph and the next free id it leaves.      *)
(***************************************************************************)
MatchFailure(g, nid) == [result |-> "failure", graph |-> g, nextId |-> nid]

Success(g, nid) == [result |-> "success", graph |-> g, nextId |-> nid]

Rewire(s, op, val) == [i \in 1..Len(s) |-> IF s[i] = op THEN val ELSE s[i]]

\* rewriter.replaceOp(op, val): every use of op becomes a use of val and op
\* is erased
ReplaceOp(g, op, val) ==
  [n \in DOMAIN g \ {op} |->
     [g[n] EXCEPT !.operands = Rewire(g[n].operands, op, val),
                  !.inits = Rewire(g[n].inits, op, val)]]

\* rewriter.create<...>: the graph with operation o added under id n
Create(g, n, o) == [m \in DOMAIN g \cup {n} |-> IF m = n THEN o ELSE g[m]]

(***************************************************************************)
(* RelayoutReduceWindow: relayout reduce_window to channel last.           *)
(***************************************************************************)
PermForInputs(layout, target_layout) ==
  GetPermForReLayout(layout, target_layout)

PermForOutputs_SameDirection(layout, target_layout) ==
  GetPermForReLayout(layout, target_layout)

PermForOutputs(layout, target_layout) ==
  GetPermForReLayout(target_layout, layout)

NewPaddings_Unpermuted(paddings, perm_for_inputs) == paddings

\* new_paddings[2 * i], new_paddings[2 * i + 1] = Lo, Hi of
\* paddings[perm_for_inputs[i]]
NewPaddings(paddings, perm_for_inputs) ==
  [i \in 1..Len(paddings) |-> paddings[perm_for_inputs[i] + 1]]

NewWindowStrides_Unpermuted(view, perm_for_inputs) == view.WindowStrides

NewWindowStrides(view, perm_for_inputs) ==
  Permute(view.WindowStrides, perm_for_inputs)

RelayoutRewrite(g, nid, op, view, layout, target_layout) ==
  LET input == g[op].operands[1]
      init_val == g[op].inits[1]
      perm_for_inputs == PermForInputs(layout, target_layout)
      new_paddings == NewPaddings(view.Paddings, perm_for_inputs)
      new_window_dims == Permute(view.WindowDims, perm_for_inputs)
      new_window_strides == NewWindowStrides(view, perm_for_inputs)
      perm_for_outputs == PermForOutputs(layout, target_layout)
      new_rw_out_shape == PermuteShape(layout, target_layout, g[op].shape)
      new_input == nid
      new_rw == nid + 1
      new_output == nid + 2
      g1 == Create(g, new_input, TransposeOp(g, input, perm_for_inputs))
      g2 == Create(g1, new_rw,
              [BlankOp EXCEPT !.kind = "reduce_window",
                 !.operands = <<new_input>>, !.inits = <<init_val>>,
                 !.shape = new_rw_out_shape, !.elem = g[op].elem,
                 !.window_dimensions = new_window_dims,
                 !.window_strides = new_window_strides,
                 !.base_dilations = view.BaseDilations,
                 !.window_dilations = view.WindowDilations,
                 !.padding = new_paddings,
                 !.body = g[op].body])
      g3 == Create(g2, new_output, TransposeOp(g2, new_rw, perm_for_outputs))
  IN Success(ReplaceOp(g3, op, new_output), nid + 3)

\* the input transpose is created before the layout check
RelayoutMatchAndRewrite_EarlyCreate(g, nid, op) ==
  LET opt_view == GetViewIfAttrsSupported(g[op])
  IN IF ~opt_view.has_value THEN MatchFailure(g, nid)
     ELSE IF ~GetInputAndInitIfValid(g, op) THEN MatchFailure(g, nid)
     ELSE LET view == opt_view.view
              layout == opt_view.layout
              target_layout == TFLNativePoolingLayout(view.Rank)
              g1 == Create(g, nid,
                      TransposeOp(g, g[op].operands[1],
                                  PermForInputs(layout, target_layout)))
          IN IF layout = target_layout THEN MatchFailure(g1, nid + 1)
             ELSE RelayoutRewrite(g, nid, op, view, layout, target_layout)

RelayoutMatchAndRewrite(g, nid, op) ==
  LET opt_view == GetViewIfAttrsSupported(g[op])
  IN IF ~opt_view.has_value THEN MatchFailure(g, nid)
     ELSE IF ~GetInputAndInitIfValid(g, op) THEN MatchFailure(g, nid)
     ELSE LET view == opt_view.view
              layout == opt_view.layout
              target_layout == TFLNativePoolingLayout(view.Rank)
          IN IF layout = target_layout THEN MatchFailure(g, nid)
             ELSE RelayoutRewrite(g, nid, op, view, layout, target_layout)

(***************************************************************************)
(* LegalizeReduceWindowMax: not implemented, never matches.                *)
(***************************************************************************)
ReduceWindowMaxMatchAndRewrite(g, nid, op) == MatchFailure(g, nid)

(***************************************************************************)
(* LegalizeAvgPool:                                                        *)
(* mhlo.div(mhlo.reduce_window, cst | mhlo.reduce_window) -> tfl.avg_pool  *)
(***************************************************************************)
NoOp == 0

PoolAttrs_Swapped(lhs_view, padding) ==
  [BlankOp EXCEPT !.kind = "average_pool_2d",
     !.filter_height = lhs_view.WindowDims[3],
     !.filter_width = lhs_view.WindowDims[2],
     !.pool_padding = padding,
     !.stride_h = lhs_view.WindowStrides[3],
     !.stride_w = lhs_view.WindowStrides[2],
     !.fused_activation_function = "NONE"]

\* the attributes of the tfl.average_pool_2d; the window sizes and strides
\* modelled stay far below the int32_t range they are narrowed to
PoolAttrs(lhs_view, padding) ==
  [BlankOp EXCEPT !.kind = "average_pool_2d",
     !.filter_height = lhs_view.WindowDims[2],
     !.filter_width = lhs_view.WindowDims[3],
     !.pool_padding = padding,
     !.stride_h = lhs_view.WindowStrides[2],
     !.stride_w = lhs_view.WindowStrides[3],
     !.fused_activation_function = "NONE"]

ReplaceWithAvgPool(g, nid, op, rw_lhs_input, lhs_view, padding, opt_final_tpose) ==
  LET typed == IF opt_final_tpose # NoOp
                 THEN g[opt_final_tpose].operands[1] ELSE op
      pool == nid
      g1 == Create(g, pool,
              [PoolAttrs(lhs_view, padding) EXCEPT
                 !.operands = <<rw_lhs_input>>,
                 !.shape = g[typed].shape, !.elem = g[typed].elem])
  IN IF opt_final_tpose # NoOp
       THEN LET g2 == Create(g1, nid + 1,
                        TransposeOp(g1, pool, g[opt_final_tpose].perm))
            IN Success(ReplaceOp(g2, op, nid + 1), nid + 2)
       ELSE Success(ReplaceOp(g1, op, pool), nid + 1)

\* Walks up the op and ignores all preceding ops whose kind is in Tys
RECURSIVE RecursivelyWalkUp(_, _, _)
RecursivelyWalkUp(g, Tys, val) ==
  IF g[val].kind \in Tys
    THEN RecursivelyWalkUp(g, Tys, g[val].operands[1])
    ELSE val

\* The padding classification loop over the spatial dimensions 1..rank-2:
\* "VALID", "SAME", or "none" when a non-trivial padding is not same-padding
RECURSIVE ClassifyPadding(_, _, _, _, _)
ClassifyPadding(view, in_shape, out_shape, i, tfl_padding) ==
  IF ~(i < view.Rank - 1) THEN tfl_padding
  ELSE IF Trivial(view.Paddings[i + 1])
    THEN ClassifyPadding(view, in_shape, out_shape, i + 1, tfl_padding)
  ELSE IF ~IsSamePaddingOnDim(view.Paddings[i + 1], out_shape[i + 1],
                              in_shape[i + 1], view.WindowStrides[i + 1],
                              view.WindowDims[i + 1])
    THEN "none"
  ELSE ClassifyPadding(view, in_shape, out_shape, i + 1, "SAME")

\* case 1: rhs is splat const with val == window_size
IsCase1(g, div_op) ==
  LET div_rhs == RecursivelyWalkUp(g, {"broadcast_in_dim", "transpose"},
                                   g[div_op].operands[2])
  IN g[div_rhs].isConst /\ IsFloat(g[div_rhs].elem)

\* the padding mode is not checked
AvgPoolCase1_AnyPadding(g, nid, div_op, rw_lhs_input, rw_lhs_view, tfl_padding, opt_final_tpose) ==
  LET div_rhs == RecursivelyWalkUp(g, {"broadcast_in_dim", "transpose"},
                                   g[div_op].operands[2])
  IN IF ~g[div_rhs].splat THEN MatchFailure(g, nid)
     ELSE IF g[div_rhs].value # rw_lhs_view.WindowSize
       THEN MatchFailure(g, nid)
     ELSE ReplaceWithAvgPool(g, nid, div_op, rw_lhs_input, rw_lhs_view,
                             tfl_padding, opt_final_tpose)

AvgPoolCase1(g, nid, div_op, rw_lhs_input, rw_lhs_view, tfl_padding, opt_final_tpose) ==
  LET div_rhs == RecursivelyWalkUp(g, {"broadcast_in_dim", "transpose"},
                                   g[div_op].operands[2])
  IN IF ~g[div_rhs].splat THEN MatchFailure(g, nid)
     ELSE IF g[div_rhs].value # rw_lhs_view.WindowSize
       THEN MatchFailure(g, nid)
     ELSE IF tfl_padding # "VALID" THEN MatchFailure(g, nid)
     ELSE ReplaceWithAvgPool(g, nid, div_op, rw_lhs_input, rw_lhs_view,
                             tfl_padding, opt_final_tpose)

SameWindowConfig_NoPadding(lhs, rhs) ==
  ~(\/ lhs.window_dimensions # rhs.window_dimensions
    \/ lhs.window_strides # rhs.window_strides)

\* Check that the two reduce window have the same window configuration
SameWindowConfig(lhs, rhs) ==
  ~(\/ lhs.window_dimensions # rhs.window_dimensions
    \/ lhs.window_strides # rhs.window_strides
    \/ lhs.padding # rhs.padding)

\* case 2: rhs is another reduce window over 1's with same config as lhs
AvgPoolCase2(g, nid, div_op, rw_lhs, rw_lhs_input, rw_lhs_view, tfl_padding, opt_final_tpose) ==
  LET rw_rhs == RecursivelyWalkUp(g,
                  {"broadcast_in_dim", "reshape", "transpose"},
                  g[div_op].operands[2])
  IN IF g[rw_rhs].kind # "reduce_window" THEN MatchFailure(g, nid)
     ELSE LET opt_rw_rhs_view == GetViewIfAttrsSupported(g[rw_rhs])
              rw_rhs_layout == opt_rw_rhs_view.layout
          IN IF ~opt_rw_rhs_view.has_value THEN MatchFailure(g, nid)
             ELSE IF rw_rhs_layout #
                       TFLNativePoolingLayout(LayoutRank(rw_rhs_layout))
               THEN MatchFailure(g, nid)
             ELSE IF ~MatchBinaryReduceFunctionAdd(g[rw_rhs])
               THEN MatchFailure(g, nid)
             ELSE IF ~GetInputAndInitIfValid(g, rw_rhs)
               THEN MatchFailure(g, nid)
             ELSE IF ~IsCstFloatZero(g, g[rw_rhs].inits[1])
               THEN MatchFailure(g, nid)
             ELSE LET rw_rhs_input ==
                        RecursivelyWalkUp(g, {"broadcast_in_dim", "transpose"},
                                          g[rw_rhs].operands[1])
                  IN IF \/ ~(g[rw_rhs_input].isConst
                               /\ IsFloat(g[rw_rhs_input].elem))
                        \/ ~g[rw_rhs_input].splat
                        \/ g[rw_rhs_input].value # 1
                       THEN MatchFailure(g, nid)
                     ELSE IF ~SameWindowConfig(g[rw_lhs], g[rw_rhs])
                       THEN MatchFailure(g, nid)
                     ELSE ReplaceWithAvgPool(g, nid, div_op, rw_lhs_input,
                                             rw_lhs_view, tfl_padding,
                                             opt_final_tpose)

AvgPoolMatchAndRewrite(g, nid, div_op) ==
  LET div_lhs == g[div_op].operands[1]
      opt_final_tpose == IF g[div_lhs].kind = "transpose"
                           THEN div_lhs ELSE NoOp
      rw_lhs == RecursivelyWalkUp(g, {"transpose"}, div_lhs)
  IN IF g[rw_lhs].kind # "reduce_window" THEN MatchFailure(g, nid)
     ELSE LET opt_rw_lhs_view == GetViewIfAttrsSupported(g[rw_lhs])
              rw_lhs_view == opt_rw_lhs_view.view
              rw_lhs_layout == opt_rw_lhs_view.layout
          IN IF ~opt_rw_lhs_view.has_value THEN MatchFailure(g, nid)
             ELSE IF rw_lhs_view.Rank # 4 THEN MatchFailure(g, nid)
             ELSE IF rw_lhs_layout #
                       TFLNativePoolingLayout(LayoutRank(rw_lhs_layout))
               THEN MatchFailure(g, nid)
             ELSE IF ~GetInputAndInitIfValid(g, rw_lhs)
               THEN MatchFailure(g, nid)
             ELSE LET rw_lhs_input == g[rw_lhs].operands[1]
                      rw_lhs_init_val == g[rw_lhs].inits[1]
                  IN IF ~MatchBinaryReduceFunctionAdd(g[rw_lhs])
                       THEN MatchFailure(g, nid)
                     ELSE IF ~IsFloat(g[rw_lhs].elem)
                       THEN MatchFailure(g, nid)
                     ELSE IF ~IsCstFloatZero(g, rw_lhs_init_val)
                       THEN MatchFailure(g, nid)
                     ELSE LET tfl_padding ==
                                ClassifyPadding(rw_lhs_view,
                                  g[rw_lhs_input].shape, g[rw_lhs].shape,
                                  1, "VALID")
                          IN IF tfl_padding = "none"
                               THEN MatchFailure(g, nid)
                             ELSE IF IsCase1(g, div_op)
                               THEN AvgPoolCase1(g, nid, div_op, rw_lhs_input,
                                      rw_lhs_view, tfl_padding,
                                      opt_final_tpose)
                             ELSE AvgPoolCase2(g, nid, div_op, rw_lhs,
                                      rw_lhs_input, rw_lhs_view, tfl_padding,
                                      opt_final_tpose)

(***************************************************************************)
(* The graphs the patterns start from:                                     *)
(*   x, init -> reduce_window -> transpose* -> divide -> return            *)
(* with the divisor a constant, a second reduce_window over a constant, or *)
(* a graph input, possibly behind one shape-only wrapper.                  *)
(***************************************************************************)
WindowCfg(dims, strides, pads, bdil, wdil) ==
  [window_dimensions |-> dims, window_strides |-> strides, padding |-> pads,
   base_dilations |-> bdil, window_dilations |-> wdil]

\* result size of a reduce_window on one dimension
ReduceWindowOutDim(in, w, s, pad, bd, wd) ==
  ((in - 1) * bd + 1 + pad[1] + pad[2] - ((w - 1) * wd + 1)) \div s + 1

ReduceWindowOp(input, init, cfg, body, elem, in_shape, variadic) ==
  LET o == [BlankOp EXCEPT
              !.kind = "reduce_window",
              !.operands = IF variadic THEN <<input, input>> ELSE <<input>>,
              !.inits = IF variadic THEN <<init, init>> ELSE <<init>>,
              !.numResults = IF variadic THEN 2 ELSE 1,
              !.elem = elem, !.body = body,
              !.window_dimensions = cfg.window_dimensions,
              !.window_strides = cfg.window_strides,
              !.base_dilations = cfg.base_dilations,
              !.window_dilations = cfg.window_dilations,
              !.padding = cfg.padding]
      v == ReduceWindowView(o)
  IN [o EXCEPT !.shape =
        [i \in 1..v.Rank |->
           ReduceWindowOutDim(in_shape[i], v.WindowDims[i], v.WindowStrides[i],
                              v.Paddings[i], v.BaseDilations[i],
                              v.WindowDilations[i])]]

InitValueOp(how, elem) ==
  CASE how = "zero" -> ConstOp(<<>>, elem, TRUE, 0)
    [] how = "one" -> ConstOp(<<>>, elem, TRUE, 1)
    [] how = "vector" -> ConstOp(<<2>>, elem, TRUE, 0)
    [] OTHER -> ArgOp(<<>>, elem)

WrapperOp(g, kind, val) ==
  IF kind = "transpose"
    THEN TransposeOp(g, val, Iota(0, Len(g[val].shape)))
    ELSE [BlankOp EXCEPT !.kind = kind, !.operands = <<val>>,
                         !.shape = g[val].shape, !.elem = g[val].elem]

Wrapped(g, kind) ==
  IF kind = "none" THEN g ELSE Append(g, WrapperOp(g, kind, Len(g)))

RECURSIVE Transposed(_, _)
Transposed(g, perms) ==
  IF perms = <<>> THEN g
  ELSE Transposed(Append(g, TransposeOp(g, Len(g), Head(perms))), Tail(perms))

WithDivisor(g, d, elem, in_shape, out_shape) ==
  CASE d.kind = "const" ->
         Wrapped(Append(g, ConstOp(out_shape, elem, d.splat, d.value)), d.wrap)
    [] d.kind = "rw" ->
         LET g1 == Append(g, ConstOp(in_shape, elem, d.onesSplat, d.ones))
             g2 == Wrapped(g1, d.onesWrap)
             g3 == Append(g2, InitValueOp(d.init, elem))
             g4 == Append(g3, ReduceWindowOp(Len(g2), Len(g3), d.cfg, d.body,
                                             elem, in_shape, d.variadic))
         IN Wrapped(g4, d.wrap)
    [] OTHER -> Append(g, ArgOp(out_shape, elem))

BuildGraph(p) ==
  LET g1 == <<ArgOp(p.in_shape, p.elem), InitValueOp(p.init, p.elem)>>
      g2 == Append(g1, ReduceWindowOp(1, 2, p.cfg, p.body, p.elem, p.in_shape,
                                      p.variadic))
      g3 == Wrapped(Transposed(g2, p.chain), p.wrap)
      lhs == Len(g3)
      g4 == WithDivisor(g3, p.divisor, p.elem, p.in_shape, g3[lhs].shape)
      rhs == Len(g4)
      g5 == Append(g4, [BlankOp EXCEPT !.kind = "divide",
                          !.operands = <<lhs, rhs>>,
                          !.shape = g3[lhs].shape, !.elem = p.elem])
  IN Append(g5, [BlankOp EXCEPT !.kind = "return",
                   !.operands = <<Len(g5)>>, !.shape = g3[lhs].shape,
                   !.elem = p.elem])

(***************************************************************************)
(* The parameters the initial graphs are drawn from.                       *)
(***************************************************************************)
ConstDivisor(splat, value, wrap) ==
  [kind |-> "const", splat |-> splat, value |-> value, wrap |-> wrap,
   ones |-> 0, onesSplat |-> FALSE, onesWrap |-> "none", init |-> "zero",
   body |-> "none", variadic |-> FALSE,
   cfg |-> WindowCfg(<<>>, Absent, Absent, Absent, Absent)]

RwDivisor(cfg, ones, onesSplat, onesWrap, init, body, variadic, wrap) ==
  [kind |-> "rw", splat |-> FALSE, value |-> 0, wrap |-> wrap,
   ones |-> ones, onesSplat |-> onesSplat, onesWrap |-> onesWrap,
   init |-> init, body |-> body, variadic |-> variadic, cfg |-> cfg]

ArgDivisor == [ConstDivisor(FALSE, 0, "none") EXCEPT !.kind = "arg"]

OnesWindow(cfg) ==
  RwDivisor(cfg, 1, TRUE, "none", "zero", "add", FALSE, "none")

Params(in_shape, cfg, chain, divisor) ==
  [in_shape |-> in_shape, cfg |-> cfg, body |-> "add", elem |-> "f32",
   init |-> "zero", variadic |-> FALSE, chain |-> chain, wrap |-> "none",
   divisor |-> divisor]

SpatialCfgs ==
  [w : 1..MaxWindow, s : Strides, lo : PadAmounts, hi : PadAmounts]

ChannelLastCfg(sh, sw) ==
  WindowCfg(<<1, sh.w, sw.w, 1>>, <<1, sh.s, sw.s, 1>>,
            <<<<0, 0>>, <<sh.lo, sh.hi>>, <<sw.lo, sw.hi>>, <<0, 0>>>>,
            AllOnes(4), AllOnes(4))

ChannelFirstCfg(sh, sw) ==
  WindowCfg(<<1, 1, sh.w, sw.w>>, <<1, 1, sh.s, sw.s>>,
            <<<<0, 0>>, <<0, 0>>, <<sh.lo, sh.hi>>, <<sw.lo, sw.hi>>>>,
            AllOnes(4), AllOnes(4))

ChannelLastShape == <<2, 4, 5, 3>>
ChannelFirstShape == <<2, 3, 4, 5>>

Wrappers == {"none", "broadcast_in_dim", "reshape", "transpose"}

TransposePerms == {<<0, 3, 1, 2>>, <<0, 2, 3, 1>>, <<0, 2, 1, 3>>}

RECURSIVE Chains(_)
Chains(n) ==
  IF n = 0 THEN {<<>>}
  ELSE Chains(n - 1) \cup
       {Append(c, q) : c \in {c \in Chains(n - 1) : Len(c) = n - 1},
                       q \in TransposePerms}

\* every window configuration in both layouts, over the window-size
\* constant and over the matching ones-window
InitWindows ==
  \E sh \in SpatialCfgs, sw \in SpatialCfgs, first \in BOOLEAN,
     ones \in BOOLEAN :
    LET cfg == IF first THEN ChannelFirstCfg(sh, sw)
               ELSE ChannelLastCfg(sh, sw)
        shape == IF first THEN ChannelFirstShape ELSE ChannelLastShape
    IN graph = BuildGraph(Params(shape, cfg, <<>>,
                 IF ones THEN OnesWindow(cfg)
                 ELSE ConstDivisor(TRUE, sh.w * sw.w, "none")))

Spatial(w, s, lo, hi) == [w |-> w, s |-> s, lo |-> lo, hi |-> hi]

\* a valid-padding window, a same-padding window, a window with
\* same-padding on one spatial dimension only, and a window whose optional
\* attributes are absent; each in both layouts
BaseWindows ==
  LET pairs == {<<Spatial(2, 1, 0, 0), Spatial(3, 2, 0, 0)>>,
                <<Spatial(3, 1, 1, 1), Spatial(3, 1, 1, 1)>>,
                <<Spatial(3, 1, 1, 1), Spatial(3, 1, 0, 0)>>}
      bare == WindowCfg(<<1, 2, 2, 1>>, Absent, Absent, Absent, Absent)
  IN {[cfg |-> ChannelLastCfg(q[1], q[2]), in_shape |-> ChannelLastShape] :
        q \in pairs}
     \cup
     {[cfg |-> ChannelFirstCfg(q[1], q[2]), in_shape |-> ChannelFirstShape] :
        q \in pairs}
     \cup {[cfg |-> bare, in_shape |-> ChannelLastShape]}

\* cfg, and cfg with one entry of one attribute changed or one optional
\* attribute dropped
Perturbed(cfg) ==
  LET rank == Len(cfg.window_dimensions)
      strides == IF cfg.window_strides = Absent
                   THEN AllOnes(rank) ELSE cfg.window_strides
      pads == IF cfg.padding = Absent THEN NoPadding(rank) ELSE cfg.padding
  IN {cfg,
      [cfg EXCEPT !.window_strides = Absent],
      [cfg EXCEPT !.padding = Absent],
      [cfg EXCEPT !.window_strides = strides],
      [cfg EXCEPT !.padding = pads]}
     \cup {[cfg EXCEPT !.window_dimensions[i] = 1 + (@ % MaxWindow)] :
             i \in 1..rank}
     \cup {[cfg EXCEPT !.window_strides = [strides EXCEPT ![i] = 3 - @]] :
             i \in 1..rank}
     \cup {[cfg EXCEPT !.padding = [pads EXCEPT ![i] = <<1 - @[1], @[2]>>]] :
             i \in 1..rank}
     \cup {[cfg EXCEPT !.padding = [pads EXCEPT ![i] = <<@[1], 1 - @[2]>>]] :
             i \in 1..rank}

Divisors(cfg) ==
  LET size == Product(cfg.window_dimensions)
  IN {ConstDivisor(splat, v, wrap) :
        splat \in BOOLEAN, v \in {size, size + 1}, wrap \in Wrappers}
     \cup {[OnesWindow(c) EXCEPT !.wrap = wrap] :
             c \in Perturbed(cfg), wrap \in Wrappers}
     \cup {[OnesWindow(cfg) EXCEPT !.ones = 2],
           [OnesWindow(cfg) EXCEPT !.onesSplat = FALSE],
           [OnesWindow(cfg) EXCEPT !.onesWrap = "broadcast_in_dim"],
           [OnesWindow(cfg) EXCEPT !.onesWrap = "transpose"],
           [OnesWindow(cfg) EXCEPT !.onesWrap = "reshape"],
           [OnesWindow(cfg) EXCEPT !.init = "one"],
           [OnesWindow(cfg) EXCEPT !.init = "arg"],
           [OnesWindow(cfg) EXCEPT !.body = "max"],
           [OnesWindow(cfg) EXCEPT !.variadic = TRUE],
           ArgDivisor}

\* every divisor shape under each base window
InitDivisors ==
  \E b \in BaseWindows :
    \E d \in Divisors(b.cfg) :
      graph = BuildGraph(Params(b.in_shape, b.cfg, <<>>, d))

\* every chain of transposes between the numerator and the division
InitChains ==
  \E b \in BaseWindows, chain \in Chains(MaxTransposes) :
    \E d \in {ConstDivisor(TRUE, Product(b.cfg.window_dimensions), "none"),
              ConstDivisor(TRUE, 1 + Product(b.cfg.window_dimensions), "none"),
              OnesWindow(b.cfg)} :
      graph = BuildGraph(Params(b.in_shape, b.cfg, chain, d))

\* numerators that are not a single-input floating-point sum with zero
\* init, or that the division reaches through something else than transposes
InitNumerators ==
  \E b \in BaseWindows :
    \E d \in {ConstDivisor(TRUE, Product(b.cfg.window_dimensions), "none"),
              OnesWindow(b.cfg)} :
      LET p == Params(b.in_shape, b.cfg, <<>>, d)
      IN \E q \in {[p EXCEPT !.body = "max"], [p EXCEPT !.elem = "i32"],
                   [p EXCEPT !.init = "one"], [p EXCEPT !.init = "arg"],
                   [p EXCEPT !.init = "vector"], [p EXCEPT !.variadic = TRUE],
                   [p EXCEPT !.wrap = "reshape"],
                   [p EXCEPT !.wrap = "broadcast_in_dim"]} :
           graph = BuildGraph(q)

\* window attributes the support filter has to tell apart
FilterCfgs ==
  LET at(i, v, d) == [k \in 1..4 |-> IF k = i THEN v ELSE d]
      strides == {Absent, AllOnes(4)} \cup {at(i, 2, 1) : i \in 1..4}
      pads == {Absent, NoPadding(4)}
              \cup {at(i, <<1, 0>>, <<0, 0>>) : i \in 1..4}
      dils == {<<Absent, Absent>>, <<AllOnes(4), AllOnes(4)>>,
               <<at(2, 2, 1), AllOnes(4)>>, <<AllOnes(4), at(3, 2, 1)>>}
  IN {WindowCfg(dims, s, q, dl[1], dl[2]) :
        dims \in [1..4 -> {1, 2}], s \in strides, q \in pads, dl \in dils}

InitFilter ==
  \E cfg \in FilterCfgs :
    graph = BuildGraph(Params(ChannelLastShape, cfg, <<>>,
              ConstDivisor(TRUE, Product(cfg.window_dimensions), "none")))

\* reduce_windows of a rank other than 4
InitRanks ==
  \E rank \in {3, 5} :
    \E dims \in [1..rank -> {1, 2}], explicit \in BOOLEAN :
      graph = BuildGraph(Params([i \in 1..rank |-> i + 1],
                IF explicit
                  THEN WindowCfg(dims, AllOnes(rank), NoPadding(rank),
                                 AllOnes(rank), AllOnes(rank))
                  ELSE WindowCfg(dims, Absent, Absent, Absent, Absent),
                <<>>, ConstDivisor(TRUE, Product(dims), "none")))

NoAttempt == [pattern |-> "none", op |-> NoOp, result |-> "none"]

Init ==
  /\ \/ InitWindows
     \/ InitDivisors
     \/ InitChains
     \/ InitNumerators
     \/ InitFilter
     \/ InitRanks
  /\ nextId = Len(graph) + 1
  /\ last = NoAttempt
  /\ layoutA = TFLNativePoolingLayout(4)
  /\ layoutB = TFLNativePoolingLayout(4)
  /\ permAB = <<>>
  /\ permBA = <<>>

(***************************************************************************)
(* One action per pattern: the driver applies the pattern to an operation  *)
(* of the kind the pattern is registered for.                              *)
(***************************************************************************)
OpsOfKind(kind) == {op \in DOMAIN graph : graph[op].kind = kind}

Attempt(pattern, op, r) ==
  /\ nextId <= MaxNodes
  /\ graph' = r.graph
  /\ nextId' = r.nextId
  /\ last' = [pattern |-> pattern, op |-> op, result |-> r.result]
  /\ UNCHANGED <<layoutA, layoutB, permAB, permBA>>

RelayoutReduceWindow ==
  \E op \in OpsOfKind("reduce_window") :
    Attempt("RelayoutReduceWindow", op,
            RelayoutMatchAndRewrite(graph, nextId, op))

LegalizeReduceWindowMax ==
  \E op \in OpsOfKind("reduce_window") :
    Attempt("LegalizeReduceWindowMax", op,
            ReduceWindowMaxMatchAndRewrite(graph, nextId, op))

LegalizeAvgPool ==
  \E op \in OpsOfKind("divide") :
    Attempt("LegalizeAvgPool", op, AvgPoolMatchAndRewrite(graph, nextId, op))

Next ==
  \/ RelayoutReduceWindow
  \/ LegalizeReduceWindowMax
  \/ LegalizeAvgPool

Spec == Init /\ [][Next]_vars

(***************************************************************************)
(* The layout algebra on its own: two layouts of the same rank and the     *)
(* permutations between them.                                              *)
(***************************************************************************)
RECURSIVE Orders(_)
Orders(S) ==
  IF S = {} THEN {<<>>}
  ELSE UNION {{<<x>> \o o : o \in Orders(S \ {x})} : x \in S}

Layouts(rank) ==
  UNION {{Layout(q[1], q[2], o) : o \in Orders((0..(rank - 1)) \ {q[1], q[2]})} :
           q \in {q \in (0..(rank - 1)) \X (0..(rank - 1)) : q[1] # q[2]}}

InitLayout ==
  /\ \E rank \in 3..MaxRank :
       /\ layoutA \in Layouts(rank)
       /\ layoutB \in Layouts(rank)
  /\ permAB = <<>>
  /\ permBA = <<>>
  /\ graph = <<>>
  /\ nextId = 1
  /\ last = NoAttempt

ComputePermutations ==
  /\ permAB = <<>>
  /\ permAB' = PermForInputs(layoutA, layoutB)
  /\ permBA' = PermForOutputs(layoutA, layoutB)
  /\ UNCHANGED <<graph, nextId, last, layoutA, layoutB>>

NextLayout == ComputePermutations

SpecLayout == InitLayout /\ [][NextLayout]_vars

(***************************************************************************)
(* Properties.                                                             *)
(*                                                                         *)
(* A step that changes the state is one pattern attempt; last' names the   *)
(* pattern, the operation it was applied to and the result it returned.    *)
(***************************************************************************)
Canonical == Layout(0, 3, <<1, 2>>)

Attempted(pattern, op) ==
  /\ last'.pattern = pattern
  /\ last'.op = op
  /\ op \in DOMAIN graph

Untouched == graph' = graph /\ nextId' = nextId

NewOps == DOMAIN graph' \ DOMAIN graph

\* the reduce_window passes the support filter in canonical layout
InCanonicalLayout(g, op) ==
  /\ g[op].kind = "reduce_window"
  /\ GetViewIfAttrsSupported(g[op]).has_value
  /\ GetViewIfAttrsSupported(g[op]).layout = Canonical

\* C1: RelayoutReduceWindow applied to a reduce_window that passes the
\* support filter with the canonical layout (batch 0, channel rank-1,
\* spatial 1..rank-2) returns failure and leaves the graph as it was.
C1_RelayoutIdempotent ==
  [][\A op \in DOMAIN graph :
       (Attempted("RelayoutReduceWindow", op) /\ InCanonicalLayout(graph, op))
         => (last'.result = "failure" /\ Untouched)]_vars

C1_Witness ==
  /\ last.pattern = "RelayoutReduceWindow"
  /\ last.result = "failure"
  /\ last.op \in DOMAIN graph
  /\ InCanonicalLayout(graph, last.op)
  /\ GetInputAndInitIfValid(graph, last.op)
  /\ graph[last.op].window_dimensions[2] > 1

\* C2: an attempt of RelayoutReduceWindow or LegalizeAvgPool that returns
\* failure, on whichever rejection path, creates, removes and rewires
\* nothing: the graph after it is the graph before it.
C2_FailureAtomic ==
  [][(last'.result = "failure"
        /\ last'.pattern \in {"RelayoutReduceWindow", "LegalizeAvgPool"})
       => Untouched]_vars

\* LegalizeAvgPool rejected on its last check: both reduce_windows are
\* fusable but their window configurations differ
C2_Witness ==
  /\ last.pattern = "LegalizeAvgPool"
  /\ last.result = "failure"
  /\ last.op \in DOMAIN graph
  /\ LET lhs == RecursivelyWalkUp(graph, {"transpose"},
                                  graph[last.op].operands[1])
         rhs == RecursivelyWalkUp(graph,
                  {"broadcast_in_dim", "reshape", "transpose"},
                  graph[last.op].operands[2])
     IN /\ InCanonicalLayout(graph, lhs)
        /\ InCanonicalLayout(graph, rhs)
        /\ graph[lhs].window_dimensions # graph[rhs].window_dimensions
        /\ \E op \in DOMAIN graph : graph[op].kind = "transpose"

(***************************************************************************)
(* What the claims about LegalizeAvgPool speak of, read off the graph.     *)
(***************************************************************************)
Numerator(g, div) == RecursivelyWalkUp(g, {"transpose"}, g[div].operands[1])

ConstDenominator(g, div) ==
  RecursivelyWalkUp(g, {"broadcast_in_dim", "transpose"}, g[div].operands[2])

WindowDenominator(g, div) ==
  RecursivelyWalkUp(g, {"broadcast_in_dim", "reshape", "transpose"},
                    g[div].operands[2])

IsFloatConst(g, v) == g[v].isConst /\ g[v].elem = "f32"

IsZeroInit(g, rw) ==
  LET init == g[rw].inits[1]
  IN IsFloatConst(g, init) /\ g[init].shape = <<>> /\ g[init].value = 0

\* a canonical-layout rank-4 floating-point sum-reduce-window with one
\* input and a zero initial value
IsSumWindow(g, rw) ==
  /\ InCanonicalLayout(g, rw)
  /\ g[rw].numResults = 1
  /\ Len(g[rw].operands) = 1
  /\ g[rw].body = "add"
  /\ g[rw].elem = "f32"
  /\ IsZeroInit(g, rw)

StridesOf(o) ==
  IF o.window_strides = Absent THEN <<1, 1, 1, 1>> ELSE o.window_strides

PaddingOf(o) ==
  IF o.padding = Absent
    THEN <<<<0, 0>>, <<0, 0>>, <<0, 0>>, <<0, 0>>>> ELSE o.padding

TrivialSpatialPadding(o) ==
  PaddingOf(o)[2] = <<0, 0>> /\ PaddingOf(o)[3] = <<0, 0>>

\* the same-padding relation on spatial dimension d of reduce_window rw
SamePaddedOn(g, rw, d) ==
  LET in == g[g[rw].operands[1]].shape[d + 1]
      out == g[rw].shape[d + 1]
      stride == StridesOf(g[rw])[d + 1]
      window == g[rw].window_dimensions[d + 1]
      total == IF (out - 1) * stride + window - in > 0
                 THEN (out - 1) * stride + window - in ELSE 0
  IN /\ out * stride >= in
     /\ (out - 1) * stride < in
     /\ PaddingOf(g[rw])[d + 1] = <<total \div 2, total - total \div 2>>

\* every spatial dimension has trivial padding or same-padding
ClassifiablePadding(g, rw) ==
  \A d \in {1, 2} :
    PaddingOf(g[rw])[d + 1] = <<0, 0>> \/ SamePaddedOn(g, rw, d)

PoolsCreated == {n \in NewOps : graph'[n].kind = "average_pool_2d"}

\* one average_pool_2d over the input of reduce_window rw was created, with
\* filter and stride the window's spatial entries and the given padding
\* mode, and it is all that was created apart from transposes
FusedInto(rw, mode) ==
  /\ Cardinality(PoolsCreated) = 1
  /\ \A n \in NewOps : graph'[n].kind \in {"average_pool_2d", "transpose"}
  /\ \A n \in PoolsCreated :
       /\ graph'[n].operands = graph[rw].operands
       /\ graph'[n].filter_height = graph[rw].window_dimensions[2]
       /\ graph'[n].filter_width = graph[rw].window_dimensions[3]
       /\ graph'[n].stride_h = StridesOf(graph[rw])[2]
       /\ graph'[n].stride_w = StridesOf(graph[rw])[3]
       /\ graph'[n].pool_padding = mode

\* the division is gone and what used it uses a created operation instead
DivisionReplaced(div) ==
  /\ div \notin DOMAIN graph'
  /\ \A n \in DOMAIN graph \ {div} :
       /\ n \in DOMAIN graph'
       /\ \A i \in 1..Len(graph[n].operands) :
            IF graph[n].operands[i] = div
              THEN graph'[n].operands[i] \in NewOps
              ELSE graph'[n].operands[i] = graph[n].operands[i]

ConstantDivisorCase(div) ==
  /\ Attempted("LegalizeAvgPool", div)
  /\ IsSumWindow(graph, Numerator(graph, div))
  /\ TrivialSpatialPadding(graph[Numerator(graph, div)])
  /\ IsFloatConst(graph, ConstDenominator(graph, div))
  /\ graph[ConstDenominator(graph, div)].splat
  /\ graph[ConstDenominator(graph, div)].value =
       Product(graph[Numerator(graph, div)].window_dimensions)

ConstantDenominatorCase(div) ==
  /\ Attempted("LegalizeAvgPool", div)
  /\ IsFloatConst(graph, ConstDenominator(graph, div))

\* the constant is a splat of the numerator's window element count and the
\* numerator's spatial padding is trivial (mode VALID)
ConstantFits(g, div) ==
  /\ g[Numerator(g, div)].kind = "reduce_window"
  /\ g[ConstDenominator(g, div)].splat
  /\ g[ConstDenominator(g, div)].value =
       Product(g[Numerator(g, div)].window_dimensions)
  /\ TrivialSpatialPadding(g[Numerator(g, div)])

\* C4: when the denominator resolves, through broadcast/transpose, to a
\* constant, LegalizeAvgPool succeeds only if the constant is a splat equal
\* to the numerator's window element count and the padding mode is VALID;
\* otherwise it returns failure and the graph is unchanged.
C4_ConstantDivisorRejection ==
  [][\A div \in DOMAIN graph :
       ConstantDenominatorCase(div)
         => /\ last'.result = "success" => ConstantFits(graph, div)
            /\ ~ConstantFits(graph, div)
                 => (last'.result = "failure" /\ Untouched)]_vars

\* rejected: the splat equals the window element count but the numerator
\* has same-padding
C4_Witness ==
  /\ last.pattern = "LegalizeAvgPool"
  /\ last.result = "failure"
  /\ last.op \in DOMAIN graph
  /\ IsSumWindow(graph, Numerator(graph, last.op))
  /\ IsFloatConst(graph, ConstDenominator(graph, last.op))
  /\ graph[ConstDenominator(graph, last.op)].splat
  /\ graph[ConstDenominator(graph, last.op)].value =
       Product(graph[Numerator(graph, last.op)].window_dimensions)
  /\ ~TrivialSpatialPadding(graph[Numerator(graph, last.op)])
  /\ ClassifiablePadding(graph, Numerator(graph, last.op))

\* the denominator is a canonical-layout sum-reduce-window with zero
\* initial value over a splat of 1.0
IsOnesWindow(g, rw) ==
  /\ InCanonicalLayout(g, rw)
  /\ g[rw].numResults = 1
  /\ Len(g[rw].operands) = 1
  /\ g[rw].body = "add"
  /\ IsZeroInit(g, rw)
  /\ LET ones == RecursivelyWalkUp(g, {"broadcast_in_dim", "transpose"},
                                   g[rw].operands[1])
     IN IsFloatConst(g, ones) /\ g[ones].splat /\ g[ones].value = 1

OnesWindowCase(div) ==
  /\ Attempted("LegalizeAvgPool", div)
  /\ IsSumWindow(graph, Numerator(graph, div))
  /\ IsOnesWindow(graph, WindowDenominator(graph, div))

\* window dimensions, strides and padding are equal as attributes
EqualConfig(a, b) ==
  /\ a.window_dimensions = b.window_dimensions
  /\ a.window_strides = b.window_strides
  /\ a.padding = b.padding

\* C5 as stated: in the ones-window case LegalizeAvgPool fuses if and only
\* if the two reduce_windows have equal window dimensions, strides and
\* padding.
C5_AsStated ==
  [][\A div \in DOMAIN graph :
       OnesWindowCase(div)
         => (last'.result = "success"
               <=> EqualConfig(graph[Numerator(graph, div)],
                               graph[WindowDenominator(graph, div)]))]_vars

\* C5, amended: in the ones-window case LegalizeAvgPool fuses if and only
\* if the two reduce_windows have equal window dimensions, strides and
\* padding attributes and every spatial dimension of the numerator has
\* trivial padding or same-padding; the pool has mode VALID when all
\* spatial padding is trivial and SAME otherwise, and the filter and stride
\* of the constant-divisor case.
C5_OnesWindowFusion ==
  [][\A div \in DOMAIN graph :
       OnesWindowCase(div)
         => LET rw == Numerator(graph, div)
            IN /\ last'.result = "success"
                    <=> /\ EqualConfig(graph[rw],
                                       graph[WindowDenominator(graph, div)])
                        /\ ClassifiablePadding(graph, rw)
               /\ last'.result = "success"
                    => /\ FusedInto(rw, IF TrivialSpatialPadding(graph[rw])
                                          THEN "VALID" ELSE "SAME")
                       /\ DivisionReplaced(div)
               /\ last'.result = "failure" => Untouched]_vars

\* fused with mode SAME: both reduce_windows are still in the graph, one of
\* them over the splat of 1.0
C5_Witness ==
  /\ last.pattern = "LegalizeAvgPool"
  /\ last.result = "success"
  /\ \E n \in DOMAIN graph :
       /\ graph[n].kind = "average_pool_2d"
       /\ graph[n].pool_padding = "SAME"
       /\ graph[n].filter_height = 3
  /\ \E rw \in DOMAIN graph : IsOnesWindow(graph, rw)

IsPermutation(q, n) == Len(q) = n /\ SeqToSet(q) = 0..(n - 1)

\* C6: for layouts A and B of the same rank, A's permutation to B and B's
\* permutation to A (the input and the output permutation of
\* RelayoutReduceWindow) are bijections of {0..rank-1} that compose to the
\* identity, in both orders.
C6_PermutationInverse ==
  permAB # <<>>
    => LET n == LayoutRank(layoutA)
       IN /\ IsPermutation(permAB, n)
          /\ IsPermutation(permBA, n)
          /\ \A i \in 1..n : /\ permAB[permBA[i] + 1] = i - 1
                             /\ permBA[permAB[i] + 1] = i - 1

\* the permutations of two different layouts, neither its own inverse
C6_Witness ==
  /\ permAB # <<>>
  /\ layoutA # layoutB
  /\ permAB # permBA
  /\ LayoutRank(layoutA) = 4

\* rank 4, every dilation 1, a layout can be guessed, and the padding of
\* the guessed batch and channel dimensions is (0,0)
SupportCondition(o) ==
  /\ Len(o.window_dimensions) = 4
  /\ o.base_dilations \in {Absent, <<1, 1, 1, 1>>}
  /\ o.window_dilations \in {Absent, <<1, 1, 1, 1>>}
  /\ GuessLayout(ReduceWindowView(o)).has_value
  /\ LET l == GuessLayout(ReduceWindowView(o)).layout
     IN /\ PaddingOf(o)[l.SpecialDim1 + 1] = <<0, 0>>
        /\ PaddingOf(o)[l.SpecialDim2 + 1] = <<0, 0>>

Axes(l) == <<l.SpecialDim1, l.Spatials[1], l.Spatials[2], l.SpecialDim2>>

RelayoutSucceeded(op) ==
  /\ Attempted("RelayoutReduceWindow", op)
  /\ last'.result = "success"

NewWindows == {n \in NewOps : graph'[n].kind = "reduce_window"}

\* C8: after a successful RelayoutReduceWindow the new reduce_window has,
\* on each semantic axis, the window size, stride and (lo,hi) padding pair
\* the original has on that axis; its input is the original input and its
\* result shape the original result shape, both permuted into canonical
\* layout; and every use of the original result uses a transpose of the new
\* result that has the original shape and axis order.
C8_RelayoutPreserves ==
  [][\A op \in DOMAIN graph :
       RelayoutSucceeded(op)
         => LET old == graph[op]
                axes == Axes(GetViewIfAttrsSupported(old).layout)
            IN /\ op \notin DOMAIN graph'
               /\ Cardinality(NewWindows) = 1
               /\ \A n \in NewWindows :
                    LET new == graph'[n]
                        in == graph'[new.operands[1]]
                    IN /\ \A k \in 1..4 :
                            /\ new.window_dimensions[k] =
                                 old.window_dimensions[axes[k] + 1]
                            /\ new.window_strides[k] =
                                 StridesOf(old)[axes[k] + 1]
                            /\ new.padding[k] = PaddingOf(old)[axes[k] + 1]
                            /\ new.shape[k] = old.shape[axes[k] + 1]
                            /\ in.shape[k] =
                                 graph[old.operands[1]].shape[axes[k] + 1]
                            /\ in.perm[k] = axes[k]
                       /\ in.kind = "transpose"
                       /\ in.operands = old.operands
                       /\ new.inits = old.inits
                       /\ new.body = old.body
                       /\ new.elem = old.elem
                       /\ \A u \in DOMAIN graph \ {op} :
                            \A i \in 1..Len(graph[u].operands) :
                              graph[u].operands[i] = op
                                => LET out == graph'[graph'[u].operands[i]]
                                   IN /\ out.kind = "transpose"
                                      /\ out.operands = <<n>>
                                      /\ out.shape = old.shape
                                      /\ out.elem = old.elem
                                      /\ \A k \in 1..4 :
                                           out.perm[axes[k] + 1] = k - 1]_vars

\* a channel-first window 2x3 with strides 1x2 was rewritten: the new
\* reduce_window has them on dimensions 1 and 2
C8_Witness ==
  /\ last.pattern = "RelayoutReduceWindow"
  /\ last.result = "success"
  /\ \E n \in DOMAIN graph :
       /\ graph[n].kind = "reduce_window"
       /\ graph[n].window_dimensions = <<1, 2, 3, 1>>
       /\ graph[n].window_strides = <<1, 1, 2, 1>>
       /\ graph[graph[n].operands[1]].kind = "transpose"
       /\ \E u \in DOMAIN graph :
            graph[u].kind = "transpose" /\ graph[u].operands = <<n>>

AvgPoolSucceeded(div) ==
  /\ Attempted("LegalizeAvgPool", div)
  /\ last'.result = "success"

\* the permutations of the transposes between value from and value to,
\* outermost first
RECURSIVE TransposesBetween(_, _, _)
TransposesBetween(g, from, to) ==
  IF to = from \/ g[to].kind # "transpose" THEN <<>>
  ELSE <<g[to].perm>> \o TransposesBetween(g, from, g[to].operands[1])

\* C9: whenever LegalizeAvgPool fuses, whatever the number of transposes
\* between the numerator reduce_window and the division, the
\* average_pool_2d has the reduce_window's result type and the value that
\* replaces the division applies to the pool exactly those transposes, so
\* it has the division's shape and axis order.
C9_TransposeRechained ==
  [][\A div \in DOMAIN graph :
       AvgPoolSucceeded(div)
         => LET rw == Numerator(graph, div)
            IN \A n \in PoolsCreated :
                 /\ graph'[n].shape = graph[rw].shape
                 /\ graph'[n].elem = graph[rw].elem
                 /\ \A u \in DOMAIN graph \ {div} :
                      \A i \in 1..Len(graph[u].operands) :
                        graph[u].operands[i] = div
                          => LET out == graph'[u].operands[i]
                             IN /\ graph'[out].shape = graph[div].shape
                                /\ TransposesBetween(graph', n, out) =
                                     TransposesBetween(graph, rw,
                                       graph[div].operands[1])]_vars

\* C10: a successful RelayoutReduceWindow creates a reduce_window that
\* passes the support filter in canonical layout and on which the pattern
\* returns failure, and it leaves one reduce_window fewer to rewrite; a
\* failed attempt leaves as many: repeated application terminates and
\* rewrites each original reduce_window at most once.
CanRelayout(g, nid) ==
  {op \in DOMAIN g :
     /\ g[op].kind = "reduce_window"
     /\ RelayoutMatchAndRewrite(g, nid, op).result = "success"}

C10_RelayoutFixpoint ==
  [][\A op \in DOMAIN graph :
       Attempted("RelayoutReduceWindow", op)
         => IF last'.result = "success"
              THEN /\ Cardinality(NewWindows) = 1
                   /\ \A n \in NewWindows :
                        /\ SupportCondition(graph'[n])
                        /\ graph'[n].window_dimensions[1] = 1
                        /\ graph'[n].window_dimensions[4] = 1
                        /\ graph'[n].window_strides[1] = 1
                        /\ graph'[n].window_strides[4] = 1
                        /\ InCanonicalLayout(graph', n)
                        /\ RelayoutMatchAndRewrite(graph', nextId', n).result
                             = "failure"
                   /\ CanRelayout(graph', nextId') =
                        CanRelayout(graph, nextId) \ {op}
              ELSE CanRelayout(graph', nextId') = CanRelayout(graph, nextId)
       ]_vars

\* both reduce_windows of a graph were rewritten and the pattern was then
\* rejected on one of the new ones: nothing is left to rewrite
C10_Witness ==
  /\ last.pattern = "RelayoutReduceWindow"
  /\ last.result = "failure"
  /\ last.op \in DOMAIN graph
  /\ graph[graph[last.op].operands[1]].kind = "transpose"
  /\ graph[last.op].window_dimensions[2] > 1
  /\ StridesOf(graph[last.op])[3] > 1
  /\ CanRelayout(graph, nextId) = {}
  /\ Cardinality({n \in DOMAIN graph :
                    /\ graph[n].kind = "reduce_window"
                    /\ graph[graph[n].operands[1]].kind = "transpose"}) = 2

\* the result size on spatial dimension d of reduce_window rw is
\* ceil(input size / stride), the size a SAME average pool produces
SameOutputOn(g, rw, d) ==
  LET in == g[g[rw].operands[1]].shape[d + 1]
      out == g[rw].shape[d + 1]
      stride == StridesOf(g[rw])[d + 1]
  IN out = (in + stride - 1) \div stride

\* spatial dimension d of reduce_window rw has trivial padding and a result
\* smaller than ceil(input size / stride)
ShrinksOn(g, rw, d) ==
  /\ PaddingOf(g[rw])[d + 1] = <<0, 0>>
  /\ ~SameOutputOn(g, rw, d)

\* C11: whenever LegalizeAvgPool creates an average_pool_2d with padding
\* SAME, both spatial dimensions of the numerator reduce_window, also the
\* ones with trivial padding, have output size ceil(input size / stride);
\* a window with same-padding on one spatial dimension and shrinking
\* trivial padding on the other is never fused as SAME.
C11_SameSoundOnEverySpatialDim ==
  [][\A div \in DOMAIN graph :
       AvgPoolSucceeded(div)
         => LET rw == Numerator(graph, div)
            IN \A n \in PoolsCreated :
                 graph'[n].pool_padding = "SAME"
                   => /\ \A d \in {1, 2} : SameOutputOn(graph, rw, d)
                      /\ ~\E d, e \in {1, 2} :
                            /\ d # e
                            /\ SamePaddedOn(graph, rw, d)
                            /\ ShrinksOn(graph, rw, e)]_vars
====
